---------------------------- MODULE Spec2Model ----------------------------
(***************************************************************************)
(* A model of the two programs of crypto_algs/cpp.                         *)
(*                                                                         *)
(* DES_encryption.cpp: the key schedule (generate_round_keys), the         *)
(* 16-round Feistel transform of des_encrypt and of des_decrypt, and the   *)
(* helpers they call.  A bit vector (std::vector<bool>) is a sequence of   *)
(* 0 and 1.  The string adapters string_to_bits and bits_to_string have    *)
(* their conversion logic elided in the source, so the bit vector that     *)
(* string_to_bits hands to a routine is an input of the model, of any      *)
(* length near 64, and the two calls of main are chained on the bit block  *)
(* that des_encrypt passes to bits_to_string.                              *)
(*                                                                         *)
(* rsa.cpp: mod_inverse, run one loop iteration per step, and the part of  *)
(* main that chooses e, calls mod_inverse and asserts on its result.       *)
(*                                                                         *)
(* Specification Spec is DES_encryption.cpp, SpecRSA is rsa.cpp.           *)
(***************************************************************************)
EXTENDS Integers, Sequences, FiniteSets, TLC

VARIABLES
    pc,               \* position of the DES program
    call,             \* the routine running: "none", "encrypt" or "decrypt"
    input_block,      \* the bits string_to_bits returns for the text argument
    master_key_bits,  \* the bits string_to_bits returns for the key argument
    block,            \* des_encrypt / des_decrypt: block
    c_half,           \* generate_round_keys: c_half
    d_half,           \* generate_round_keys: d_half
    round_keys,       \* the 16 round keys
    ki,               \* generate_round_keys: loop counter i
    left_half,        \* Feistel state: left_half
    right_half,       \* Feistel state: right_half
    i,                \* des_encrypt / des_decrypt: loop counter i
    combined_block,   \* the reassembled block handed to IP_INV
    ciphertext,       \* the block des_encrypt returns (<<>> before it returns)
    decrypted,        \* the block des_decrypt returns (<<>> before it returns)
    rpc,              \* position of the RSA program
    e,                \* rsa.cpp: e
    phi,              \* rsa.cpp: phi
    t,                \* mod_inverse: t
    newt,             \* mod_inverse: newt
    r,                \* mod_inverse: r
    newr,             \* mod_inverse: newr
    d                 \* main: d, the value mod_inverse returned

des_vars ==
    << pc, call, input_block, master_key_bits, block, c_half, d_half,
       round_keys, ki, left_half, right_half, i, combined_block,
       ciphertext, decrypted >>

rsa_vars == << rpc, e, phi, t, newt, r, newr, d >>

vars == << des_vars, rsa_vars >>

---------------------------------------------------------------------------
(* Bounds of the model.                                                    *)

\* Number of master keys the inputs are drawn from.
NumKeys == 3

\* Number of text blocks the inputs are drawn from.
NumBlocks == 2

\* An input bit vector is between 64 - MaxSkew and 64 + MaxSkew bits long.
MaxSkew == 2

\* mod_inverse is run for every phi in 2..MaxPhi and every e in 1..phi-1.
MaxPhi == 48

---------------------------------------------------------------------------
(* Constants of DES_encryption.cpp.                                        *)

\* Initial Permutation (IP) table, 64 one-based source positions.
IP_TABLE ==
    << 58, 50, 42, 34, 26, 18, 10,  2,
       60, 52, 44, 36, 28, 20, 12,  4,
       62, 54, 46, 38, 30, 22, 14,  6,
       64, 56, 48, 40, 32, 24, 16,  8,
       57, 49, 41, 33, 25, 17,  9,  1,
       59, 51, 43, 35, 27, 19, 11,  3,
       61, 53, 45, 37, 29, 21, 13,  5,
       63, 55, 47, 39, 31, 23, 15,  7 >>

\* Expansion (E) table: 32 bits to 48.
E_TABLE ==
    << 32,  1,  2,  3,  4,  5,
        4,  5,  6,  7,  8,  9,
        8,  9, 10, 11, 12, 13,
       12, 13, 14, 15, 16, 17,
       16, 17, 18, 19, 20, 21,
       20, 21, 22, 23, 24, 25,
       24, 25, 26, 27, 28, 29,
       28, 29, 30, 31, 32,  1 >>

\* P-box permutation table, 32 entries.
P_TABLE ==
    << 16,  7, 20, 21, 29, 12, 28, 17,
        1, 15, 23, 26,  5, 18, 31, 10,
        2,  8, 24, 14, 32, 27,  3,  9,
       19, 13, 30,  6, 22, 11,  4, 25 >>

\* The eight S-boxes, S_BOXES[box][row][column], each entry a 4-bit value.
\* The source indexes from 0; the tuples here index from 1.
S_BOXES ==
    << << << 14,  4, 13,  1,  2, 15, 11,  8,  3, 10,  6, 12,  5,  9,  0,  7 >>,
          <<  0, 15,  7,  4, 14,  2, 13,  1, 10,  6, 12, 11,  9,  5,  3,  8 >>,
          <<  4,  1, 14,  8, 13,  6,  2, 11, 15, 12,  9,  7,  3, 10,  5,  0 >>,
          << 15, 12,  8,  2,  4,  9,  1,  7,  5, 11,  3, 14, 10,  0,  6, 13 >> >>,
       << << 15,  1,  8, 14,  6, 11,  3,  4,  9,  7,  2, 13, 12,  0,  5, 10 >>,
          <<  3, 13,  4,  7, 15,  2,  8, 14, 12,  0,  1, 10,  6,  9, 11,  5 >>,
          <<  0, 14,  7, 11, 10,  4, 13,  1,  5,  8, 12,  6,  9,  3,  2, 15 >>,
          << 13,  8, 10,  1,  3, 15,  4,  2, 11,  6,  7, 12,  0,  5, 14,  9 >> >>,
       << << 10,  0,  9, 14,  6,  3, 15,  5,  1, 13, 12,  7, 11,  4,  2,  8 >>,
          << 13,  7,  0,  9,  3,  4,  6, 10,  2,  8,  5, 14, 12, 11, 15,  1 >>,
          << 13,  6,  4,  9,  8, 15,  3,  0, 11,  1,  2, 12,  5, 10, 14,  7 >>,
          <<  1, 10, 13,  0,  6,  9,  8,  7,  4, 15, 14,  3, 11,  5,  2, 12 >> >>,
       << <<  7, 13, 14,  3,  0,  6,  9, 10,  1,  2,  8,  5, 11, 12,  4, 15 >>,
          << 13,  8, 11,  5,  6, 15,  0,  3,  4,  7,  2, 12,  1, 10, 14,  9 >>,
          << 10,  6,  9,  0, 12, 11,  7, 13, 15,  1,  3, 14,  5,  2,  8,  4 >>,
          <<  3, 15,  0,  6, 10,  1, 13,  8,  9,  4,  5, 11, 12,  7,  2, 14 >> >>,
       << <<  2, 12,  4,  1,  7, 10, 11,  6,  8,  5,  3, 15, 13,  0, 14,  9 >>,
          << 14, 11,  2, 12,  4,  7, 13,  1,  5,  0, 15, 10,  3,  9,  8,  6 >>,
          <<  4,  2,  1, 11, 10, 13,  7,  8, 15,  9, 12,  5,  6,  3,  0, 14 >>,
          << 11,  8, 12,  7,  1, 14,  2, 13,  6, 15,  0,  9, 10,  4,  5,  3 >> >>,
       << << 12,  1, 10, 15,  9,  2,  6,  8,  0, 13,  3,  4, 14,  7,  5, 11 >>,
          << 10, 15,  4,  2,  7, 12,  9,  5,  6,  1, 13, 14,  0, 11,  3,  8 >>,
          <<  9, 14, 15,  5,  2,  8, 12,  3,  7,  0,  4, 10,  1, 13, 11,  6 >>,
          <<  4,  3,  2, 12,  9,  5, 15, 10, 11, 14,  1,  7,  6,  0,  8, 13 >> >>,
       << <<  4, 11,  2, 14, 15,  0,  8, 13,  3, 12,  9,  7,  5, 10,  6,  1 >>,
          << 13,  0, 11,  7,  4,  9,  1, 10, 14,  3,  5, 12,  2, 15,  8,  6 >>,
          <<  1,  4, 11, 13, 12,  3,  7, 14, 10, 15,  6,  8,  0,  5,  9,  2 >>,
          <<  6, 11, 13,  8,  1,  4, 10,  7,  9,  5,  0, 15, 14,  2,  3, 12 >> >>,
       << << 13,  2,  8,  4,  6, 15, 11,  1, 10,  9,  3, 14,  5,  0, 12,  7 >>,
          <<  1, 15, 13,  8, 10,  3,  7,  4, 12,  5,  6, 11,  0, 14,  9,  2 >>,
          <<  7, 11,  4,  1,  9, 12, 14,  2,  0,  6, 10, 13, 15,  3,  5,  8 >>,
          <<  2,  1, 14,  7,  4, 10,  8, 13, 15, 12,  9,  0,  3,  5,  6, 11 >> >> >>

\* Permuted Choice 1: 56 of the 64 key bits.
PC1_TABLE ==
    << 57, 49, 41, 33, 25, 17,  9,  1, 58, 50, 42, 34, 26, 18,
       10,  2, 59, 51, 43, 35, 27, 19, 11,  3, 60, 52, 44, 36,
       63, 55, 47, 39, 31, 23, 15,  7, 62, 54, 46, 38, 30, 22,
       14,  6, 61, 53, 45, 37, 29, 21, 13,  5, 28, 20, 12,  4 >>

\* Permuted Choice 2: 48 of the 56 schedule bits.
PC2_TABLE ==
    << 14, 17, 11, 24,  1,  5,  3, 28, 15,  6, 21, 10,
       23, 19, 12,  4, 26,  8, 16,  7, 27, 20, 13,  2,
       41, 52, 31, 37, 47, 55, 30, 40, 51, 45, 33, 48,
       44, 49, 39, 56, 34, 53, 46, 42, 50, 36, 29, 32 >>

\* The mutation of SHIFT_SCHEDULE whose last entry is 2.
SHIFT_SCHEDULE_last_two ==
    << 1, 1, 2, 2, 2, 2, 2, 2, 1, 2, 2, 2, 2, 2, 2, 2 >>

\* Left-shift amount of each key-schedule round.
SHIFT_SCHEDULE ==
    <<  1,  1,  2,  2,  2,  2,  2,  2,  1,  2,  2,  2,  2,  2,  2,  1 >>

\* Inverse Initial Permutation table, 64 entries.
IP_INV_TABLE ==
    << 40,  8, 48, 16, 56, 24, 64, 32, 39,  7, 47, 15, 55, 23, 63, 31,
       38,  6, 46, 14, 54, 22, 62, 30, 37,  5, 45, 13, 53, 21, 61, 29,
       36,  4, 44, 12, 52, 20, 60, 28, 35,  3, 43, 11, 51, 19, 59, 27,
       34,  2, 42, 10, 50, 18, 58, 26, 33,  1, 41,  9, 49, 17, 57, 25 >>

\* Width of a block and of a master key, in bits.
BlockBits == 64

\* Number of rounds of the key schedule and of the Feistel network.
Rounds == 16

---------------------------------------------------------------------------
(* Helper functions of DES_encryption.cpp.                                 *)

\* The vector holding the elements of the function f of domain 1..n.
Vec(f) == f \o << >>

\* output[i] = input[table[i] - 1] for i < table_size.  The tables hold
\* one-based positions and sequences are one-based, so the adjustment of
\* the source disappears.  Every position read must lie inside input.
apply_permutation(input, table, table_size) ==
    Vec([k \in 1..table_size |-> input[table[k]]])

\* The largest position a table of table_size entries reads.
MaxIndex(table, table_size) ==
    CHOOSE m \in {table[k] : k \in 1..table_size} :
        \A k \in 1..table_size : table[k] <= m

\* How many positions past the end of input apply_permutation reads up to:
\* input[table[i] - 1] with table[i] > input.size() is a read outside the
\* vector, which vector<bool>::operator[] does not check.
Overrun(input, table, table_size) ==
    IF MaxIndex(table, table_size) > Len(input)
    THEN MaxIndex(table, table_size) - Len(input)
    ELSE 0

\* The bit patterns a read past the end can find in the memory there.
Garbage(n) == [1..n -> {0, 1}]

\* The mutation of circular_left_shift that shifts without wrapping: the
\* bits shifted out are lost.
circular_left_shift_no_wrap(input, shift_amount) ==
    SubSeq(input, shift_amount + 1, Len(input))

\* std::rotate(shifted.begin(), shifted.begin() + shift_amount, shifted.end()):
\* the element at shift_amount becomes the first, the order is kept.
circular_left_shift(input, shift_amount) ==
    Vec([k \in 1..Len(input) |->
        input[((k - 1 + shift_amount) % Len(input)) + 1]])

\* result(a.size()); result[i] = a[i] ^ b[i].
xor_bits(a, b) ==
    Vec([k \in 1..Len(a) |-> (a[k] + b[k]) % 2])

\* Bit `bit` (0 the least significant) of value v: (v >> bit) & 1.
ShiftBit(v, bit) == (v \div (2 ^ bit)) % 2

\* The 6-bit chunk of S-box box (0..7): input[box*6 .. box*6 + 5].
s_box_input(input, box) == SubSeq(input, box * 6 + 1, box * 6 + 6)

\* row = (s_box_input[0] << 1) | s_box_input[5].
s_box_row(chunk) == chunk[1] * 2 + chunk[6]

\* col = (s_box_input[1] << 3) | (s_box_input[2] << 2)
\*     | (s_box_input[3] << 1) | s_box_input[4].
s_box_col(chunk) == chunk[2] * 8 + chunk[3] * 4 + chunk[4] * 2 + chunk[5]

\* s_box_output_val = S_BOXES[i][row][col].
s_box_output_val(input, box) ==
    S_BOXES[box + 1][s_box_row(s_box_input(input, box)) + 1]
           [s_box_col(s_box_input(input, box)) + 1]

\* The mutation of s_box_substitution that writes each value least
\* significant bit first.
s_box_substitution_lsb_first(input) ==
    Vec([k \in 1..32 |->
        ShiftBit(s_box_output_val(input, (k - 1) \div 4), (k - 1) % 4)])

\* output(32); output[box*4 + j] = (s_box_output_val >> (3 - j)) & 1.
s_box_substitution(input) ==
    Vec([k \in 1..32 |->
        ShiftBit(s_box_output_val(input, (k - 1) \div 4), 3 - ((k - 1) % 4))])

\* std::copy(src.begin(), src.end(), dst.begin() + at): dst keeps its size.
std_copy(src, dst, at) ==
    Vec([k \in 1..Len(dst) |->
        IF k > at /\ k <= at + Len(src) THEN src[k - at] ELSE dst[k]])

\* std::vector<bool>(n): n bits, all false.
ZeroBits(n) == Vec([k \in 1..n |-> 0])

\* The mutation of std_reverse that leaves the order as it is.
std_reverse_unchanged(s) == s

\* std::reverse(s.begin(), s.end()).
std_reverse(s) == Vec([k \in 1..Len(s) |-> s[Len(s) + 1 - k]])

---------------------------------------------------------------------------
(* generate_round_keys.                                                    *)

\* The mutation of key_round that rotates c_half only.
key_round_d_not_rotated(c, dd, round) ==
    LET c2 == circular_left_shift(c, SHIFT_SCHEDULE[round + 1])
        combined_key == std_copy(dd, std_copy(c2, ZeroBits(56), 0), 28)
    IN  [c_half |-> c2, d_half |-> dd,
         key |-> apply_permutation(combined_key, PC2_TABLE, 48)]

\* One iteration (round = 0..15) of the loop of generate_round_keys: both
\* halves are rotated by SHIFT_SCHEDULE[round], copied into the 56-bit
\* combined_key, and PC-2 of that is the round key.
key_round(c, dd, round) ==
    LET c2 == circular_left_shift(c, SHIFT_SCHEDULE[round + 1])
        d2 == circular_left_shift(dd, SHIFT_SCHEDULE[round + 1])
        combined_key == std_copy(d2, std_copy(c2, ZeroBits(56), 0), 28)
    IN  [c_half |-> c2, d_half |-> d2,
         key |-> apply_permutation(combined_key, PC2_TABLE, 48)]

\* The loop of generate_round_keys run to its end from the state st, a
\* record of c_half, d_half, round_keys and the loop counter i.
RECURSIVE generate_round_keys_loop(_)
generate_round_keys_loop(st) ==
    IF st.i < Rounds
    THEN LET step == key_round(st.c_half, st.d_half, st.i)
         IN  generate_round_keys_loop(
                 [c_half |-> step.c_half, d_half |-> step.d_half,
                  round_keys |-> [st.round_keys EXCEPT ![st.i + 1] = step.key],
                  i |-> st.i + 1])
    ELSE st

\* generate_round_keys as a function of a 64-bit key: the 16 round keys.
generate_round_keys(key) ==
    LET pc1_key == apply_permutation(key, PC1_TABLE, 56)
    IN  generate_round_keys_loop(
            [c_half |-> SubSeq(pc1_key, 1, 28),
             d_half |-> SubSeq(pc1_key, 29, Len(pc1_key)),
             round_keys |-> [k \in 1..Rounds |-> << >>],
             i |-> 0]).round_keys

---------------------------------------------------------------------------
(* The Feistel network of des_encrypt and of des_decrypt.                  *)

\* The mutation of des_encrypt_round that forgets the swap: the halves
\* keep their sides.
des_encrypt_round_no_swap(l, rr, k) ==
    LET expanded_right == apply_permutation(rr, E_TABLE, 48)
        xored_expanded == xor_bits(expanded_right, k)
        s_box_output == s_box_substitution(xored_expanded)
        p_box_output == apply_permutation(s_box_output, P_TABLE, 32)
    IN  [left_half |-> xor_bits(l, p_box_output), right_half |-> rr]

\* One iteration of the loop of des_encrypt, statement by statement.
des_encrypt_round(l, rr, k) ==
    LET temp_right_half == rr
        expanded_right == apply_permutation(rr, E_TABLE, 48)
        xored_expanded == xor_bits(expanded_right, k)
        s_box_output == s_box_substitution(xored_expanded)
        p_box_output == apply_permutation(s_box_output, P_TABLE, 32)
    IN  [left_half |-> temp_right_half,
         right_half |-> xor_bits(l, p_box_output)]

\* The mutation of des_decrypt_round that leaves out the P-box.
des_decrypt_round_no_p_box(l, rr, k) ==
    LET temp_right_half == rr
        expanded_right == apply_permutation(rr, E_TABLE, 48)
        xored_expanded == xor_bits(expanded_right, k)
        s_box_output == s_box_substitution(xored_expanded)
    IN  [left_half |-> temp_right_half,
         right_half |-> xor_bits(l, s_box_output)]

\* One iteration of the loop of des_decrypt, statement by statement.
des_decrypt_round(l, rr, k) ==
    LET temp_right_half == rr
        expanded_right == apply_permutation(rr, E_TABLE, 48)
        xored_expanded == xor_bits(expanded_right, k)
        s_box_output == s_box_substitution(xored_expanded)
        p_box_output == apply_permutation(s_box_output, P_TABLE, 32)
    IN  [left_half |-> temp_right_half,
         right_half |-> xor_bits(l, p_box_output)]

\* The mutation of des_encrypt_combine that keeps Left before Right.
des_encrypt_combine_left_first(l, rr) ==
    std_copy(rr, std_copy(l, ZeroBits(64), 0), 32)

\* des_encrypt step 6: combined_block(64), right_half copied to its start,
\* left_half copied at 32.
des_encrypt_combine(l, rr) ==
    std_copy(l, std_copy(rr, ZeroBits(64), 0), 32)

\* The same two copies in des_decrypt.
des_decrypt_combine(l, rr) ==
    std_copy(l, std_copy(rr, ZeroBits(64), 0), 32)

\* The loop of des_encrypt run to its end from the state st, a record of
\* left_half, right_half and the loop counter i, with the round keys rks
\* taken in the order given.
RECURSIVE des_encrypt_rounds(_, _)
des_encrypt_rounds(st, rks) ==
    IF st.i < Rounds
    THEN LET step == des_encrypt_round(st.left_half, st.right_half,
                                       rks[st.i + 1])
         IN  des_encrypt_rounds(
                 [left_half |-> step.left_half,
                  right_half |-> step.right_half, i |-> st.i + 1], rks)
    ELSE st

\* Steps 3 to 7 of des_encrypt as one function of a 64-bit block and 16
\* round keys: IP, the split, 16 rounds, the reassembly, IP_INV.
des_encrypt_pipeline(b, rks) ==
    LET permuted == apply_permutation(b, IP_TABLE, 64)
        last == des_encrypt_rounds(
                    [left_half |-> SubSeq(permuted, 1, 32),
                     right_half |-> SubSeq(permuted, 33, Len(permuted)),
                     i |-> 0], rks)
    IN  apply_permutation(
            des_encrypt_combine(last.left_half, last.right_half),
            IP_INV_TABLE, 64)

---------------------------------------------------------------------------
(* The inputs: what string_to_bits returns for the arguments of a call.    *)

\* Sixteen hexadecimal digits, most significant first.
KeyHex(n) ==
    CASE n = 0 -> << 0, 0, 0, 0, 0, 0, 0, 0, 0, 0, 0, 0, 0, 0, 0, 0 >>
      [] n = 1 -> << 1, 3, 3, 4, 5, 7, 7, 9, 9, 11, 11, 12, 13, 15, 15, 1 >>
      [] n = 2 -> << 15, 14, 13, 12, 11, 10, 9, 8, 7, 6, 5, 4, 3, 2, 1, 0 >>
      [] OTHER -> [k \in 1..16 |-> (7 * n + 5 * k) % 16]

BlockHex(n) ==
    CASE n = 0 -> << 0, 0, 0, 0, 0, 0, 0, 0, 0, 0, 0, 0, 0, 0, 0, 0 >>
      [] n = 1 -> << 0, 1, 2, 3, 4, 5, 6, 7, 8, 9, 10, 11, 12, 13, 14, 15 >>
      [] n = 2 -> << 4, 14, 6, 15, 7, 7, 2, 0, 6, 9, 7, 3, 2, 0, 7, 4 >>
      [] OTHER -> [k \in 1..16 |-> (11 * n + 3 * k) % 16]

\* The 4 * Len(hex) bits of the digits, bit 1 the most significant.
HexToBits(hex) ==
    Vec([k \in 1..(4 * Len(hex)) |->
        ShiftBit(hex[((k - 1) \div 4) + 1], 3 - ((k - 1) % 4))])

\* bits cut to len bits, or lengthened to len bits with ones.
Resize(bits, len) ==
    Vec([k \in 1..len |-> IF k <= Len(bits) THEN bits[k] ELSE 1])

Lengths == (BlockBits - MaxSkew)..(BlockBits + MaxSkew)

KeyInputs ==
    {Resize(HexToBits(KeyHex(n)), len) :
        n \in 0..(NumKeys - 1), len \in Lengths}

BlockInputs ==
    {Resize(HexToBits(BlockHex(n)), len) :
        n \in 0..(NumBlocks - 1), len \in Lengths}

---------------------------------------------------------------------------
(* The DES program: its state after construction and its steps.            *)

NoRsa ==
    /\ rpc = "off" /\ e = 0 /\ phi = 0 /\ t = 0 /\ newt = 0
    /\ r = 0 /\ newr = 0 /\ d = 0

\* A caller is about to call des_encrypt or des_decrypt on a text block and
\* a key.  At most one of the two bit vectors has a length other than 64.
Init ==
    /\ pc = "main"
    /\ call = "none"
    /\ input_block \in BlockInputs
    /\ master_key_bits \in KeyInputs
    /\ Len(input_block) = BlockBits \/ Len(master_key_bits) = BlockBits
    /\ block = << >>
    /\ c_half = << >>
    /\ d_half = << >>
    /\ round_keys = << >>
    /\ ki = 0
    /\ left_half = << >>
    /\ right_half = << >>
    /\ i = 0
    /\ combined_block = << >>
    /\ ciphertext = << >>
    /\ decrypted = << >>
    /\ NoRsa

\* des_encrypt is entered: block = string_to_bits(plaintext), and
\* generate_round_keys is called.
des_encrypt_call ==
    /\ pc = "main"
    /\ call' = "encrypt"
    /\ block' = input_block
    /\ pc' = "gen_keys"
    /\ UNCHANGED << input_block, master_key_bits, c_half, d_half, round_keys,
                    ki, left_half, right_half, i, combined_block, ciphertext,
                    decrypted, rsa_vars >>

\* des_decrypt is entered, on the block des_encrypt returned (as main does)
\* or on the caller's block, and generate_round_keys is called.
des_decrypt_call ==
    /\ pc \in {"main", "enc_done"}
    /\ call' = "decrypt"
    /\ block' = IF pc = "main" THEN input_block ELSE ciphertext
    /\ pc' = "gen_keys"
    /\ UNCHANGED << input_block, master_key_bits, c_half, d_half, round_keys,
                    ki, left_half, right_half, i, combined_block, ciphertext,
                    decrypted, rsa_vars >>

\* generate_round_keys steps 2 and 3: PC-1, the split into c_half and
\* d_half, and round_keys(16).  A key shorter than the positions PC-1 reads
\* makes the reads past its end return whatever lies there (junk).
generate_round_keys_pc1 ==
    /\ pc = "gen_keys"
    /\ \E junk \in Garbage(Overrun(master_key_bits, PC1_TABLE, 56)) :
          LET pc1_key ==
                  apply_permutation(master_key_bits \o junk, PC1_TABLE, 56)
          IN  /\ c_half' = SubSeq(pc1_key, 1, 28)
              /\ d_half' = SubSeq(pc1_key, 29, Len(pc1_key))
    /\ round_keys' = [k \in 1..Rounds |-> << >>]
    /\ ki' = 0
    /\ pc' = "gen_loop"
    /\ UNCHANGED << call, input_block, master_key_bits, block, left_half,
                    right_half, i, combined_block, ciphertext, decrypted,
                    rsa_vars >>

\* The other outcome of a read past the end of the key: the program dies.
generate_round_keys_fault ==
    /\ pc = "gen_keys"
    /\ Overrun(master_key_bits, PC1_TABLE, 56) > 0
    /\ pc' = "crashed"
    /\ UNCHANGED << call, input_block, master_key_bits, block, c_half, d_half,
                    round_keys, ki, left_half, right_half, i, combined_block,
                    ciphertext, decrypted, rsa_vars >>

\* One iteration of the loop of generate_round_keys.
generate_round_keys_round ==
    /\ pc = "gen_loop"
    /\ ki < Rounds
    /\ LET step == key_round(c_half, d_half, ki)
       IN  /\ c_half' = step.c_half
           /\ d_half' = step.d_half
           /\ round_keys' = [round_keys EXCEPT ![ki + 1] = step.key]
    /\ ki' = ki + 1
    /\ UNCHANGED << pc, call, input_block, master_key_bits, block, left_half,
                    right_half, i, combined_block, ciphertext, decrypted,
                    rsa_vars >>

\* generate_round_keys returns round_keys to the routine that called it.
generate_round_keys_return ==
    /\ pc = "gen_loop"
    /\ ki = Rounds
    /\ pc' = IF call = "encrypt" THEN "enc_ip" ELSE "dec_ip"
    /\ UNCHANGED << call, input_block, master_key_bits, block, c_half, d_half,
                    round_keys, ki, left_half, right_half, i, combined_block,
                    ciphertext, decrypted, rsa_vars >>

\* des_encrypt steps 3 and 4: IP and the split into Left and Right.
des_encrypt_ip ==
    /\ pc = "enc_ip"
    /\ \E junk \in Garbage(Overrun(block, IP_TABLE, 64)) :
          LET permuted == apply_permutation(block \o junk, IP_TABLE, 64)
          IN  /\ block' = permuted
              /\ left_half' = SubSeq(permuted, 1, 32)
              /\ right_half' = SubSeq(permuted, 33, Len(permuted))
    /\ i' = 0
    /\ pc' = "enc_loop"
    /\ UNCHANGED << call, input_block, master_key_bits, c_half, d_half,
                    round_keys, ki, combined_block, ciphertext, decrypted,
                    rsa_vars >>

\* The other outcome of a read past the end of the block in des_encrypt.
des_encrypt_fault ==
    /\ pc = "enc_ip"
    /\ Overrun(block, IP_TABLE, 64) > 0
    /\ pc' = "crashed"
    /\ UNCHANGED << call, input_block, master_key_bits, block, c_half, d_half,
                    round_keys, ki, left_half, right_half, i, combined_block,
                    ciphertext, decrypted, rsa_vars >>

\* One iteration of the loop of des_encrypt.
des_encrypt_loop ==
    /\ pc = "enc_loop"
    /\ i < Rounds
    /\ LET step == des_encrypt_round(left_half, right_half, round_keys[i + 1])
       IN  /\ left_half' = step.left_half
           /\ right_half' = step.right_half
    /\ i' = i + 1
    /\ UNCHANGED << pc, call, input_block, master_key_bits, block, c_half,
                    d_half, round_keys, ki, combined_block, ciphertext,
                    decrypted, rsa_vars >>

\* des_encrypt steps 6 to 8: the reassembly, IP_INV, and the return.
des_encrypt_finish ==
    /\ pc = "enc_loop"
    /\ i = Rounds
    /\ combined_block' = des_encrypt_combine(left_half, right_half)
    /\ ciphertext' = apply_permutation(combined_block', IP_INV_TABLE, 64)
    /\ pc' = "enc_done"
    /\ UNCHANGED << call, input_block, master_key_bits, block, c_half, d_half,
                    round_keys, ki, left_half, right_half, i, decrypted,
                    rsa_vars >>

\* des_decrypt: std::reverse of the round keys, IP and the split.
des_decrypt_ip ==
    /\ pc = "dec_ip"
    /\ round_keys' = std_reverse(round_keys)
    /\ \E junk \in Garbage(Overrun(block, IP_TABLE, 64)) :
          LET permuted == apply_permutation(block \o junk, IP_TABLE, 64)
          IN  /\ block' = permuted
              /\ left_half' = SubSeq(permuted, 1, 32)
              /\ right_half' = SubSeq(permuted, 33, Len(permuted))
    /\ i' = 0
    /\ pc' = "dec_loop"
    /\ UNCHANGED << call, input_block, master_key_bits, c_half, d_half, ki,
                    combined_block, ciphertext, decrypted, rsa_vars >>

\* The other outcome of a read past the end of the block in des_decrypt.
des_decrypt_fault ==
    /\ pc = "dec_ip"
    /\ Overrun(block, IP_TABLE, 64) > 0
    /\ pc' = "crashed"
    /\ UNCHANGED << call, input_block, master_key_bits, block, c_half, d_half,
                    round_keys, ki, left_half, right_half, i, combined_block,
                    ciphertext, decrypted, rsa_vars >>

\* One iteration of the loop of des_decrypt.
des_decrypt_loop ==
    /\ pc = "dec_loop"
    /\ i < Rounds
    /\ LET step == des_decrypt_round(left_half, right_half, round_keys[i + 1])
       IN  /\ left_half' = step.left_half
           /\ right_half' = step.right_half
    /\ i' = i + 1
    /\ UNCHANGED << pc, call, input_block, master_key_bits, block, c_half,
                    d_half, round_keys, ki, combined_block, ciphertext,
                    decrypted, rsa_vars >>

\* des_decrypt: the reassembly, IP_INV, and the return.
des_decrypt_finish ==
    /\ pc = "dec_loop"
    /\ i = Rounds
    /\ combined_block' = des_decrypt_combine(left_half, right_half)
    /\ decrypted' = apply_permutation(combined_block', IP_INV_TABLE, 64)
    /\ pc' = "dec_done"
    /\ UNCHANGED << call, input_block, master_key_bits, block, c_half, d_half,
                    round_keys, ki, left_half, right_half, i, ciphertext,
                    rsa_vars >>

Next ==
    \/ des_encrypt_call
    \/ des_decrypt_call
    \/ generate_round_keys_pc1
    \/ generate_round_keys_fault
    \/ generate_round_keys_round
    \/ generate_round_keys_return
    \/ des_encrypt_ip
    \/ des_encrypt_fault
    \/ des_encrypt_loop
    \/ des_encrypt_finish
    \/ des_decrypt_ip
    \/ des_decrypt_fault
    \/ des_decrypt_loop
    \/ des_decrypt_finish

Spec == Init /\ [][Next]_vars

---------------------------------------------------------------------------
(* Properties of the DES program.                                          *)

\* Both inputs of the run are exactly 64 bits.
ValidInputs ==
    Len(master_key_bits) = BlockBits /\ Len(input_block) = BlockBits

\* des_decrypt was run on the block des_encrypt returned.
Chained == ciphertext # << >>

\* The block des_decrypt was called on.
DecryptInput == IF Chained THEN ciphertext ELSE input_block

\* C0 and D0: the halves of PC-1 of the master key.
C0 == SubSeq(apply_permutation(master_key_bits, PC1_TABLE, 56), 1, 28)

D0 == SubSeq(apply_permutation(master_key_bits, PC1_TABLE, 56), 29, 56)

\* s rotated left by n places, written with the two pieces it is made of.
Rotl(s, n) ==
    SubSeq(s, (n % Len(s)) + 1, Len(s)) \o SubSeq(s, 1, n % Len(s))

\* SHIFT_SCHEDULE[0] + ... + SHIFT_SCHEDULE[n - 1].
RECURSIVE ShiftSum(_)
ShiftSum(n) == IF n = 0 THEN 0 ELSE ShiftSum(n - 1) + SHIFT_SCHEDULE[n]

\* The number whose binary digits, most significant first, are bits.
RECURSIVE BitsValue(_)
BitsValue(bits) ==
    IF bits = << >>
    THEN 0
    ELSE 2 * BitsValue(SubSeq(bits, 1, Len(bits) - 1)) + bits[Len(bits)]

\* C1: decrypting, with the same 64-bit key, the block des_encrypt returned
\* for a 64-bit block gives back exactly that block.
C1_RoundTrip ==
    (pc = "dec_done" /\ Chained /\ ValidInputs) => decrypted = input_block

\* des_decrypt has returned the plaintext of a ciphertext that differs
\* from it.
C1_Witness ==
    /\ pc = "dec_done" /\ Chained /\ ValidInputs
    /\ ciphertext # input_block
    /\ decrypted = input_block

\* C2: the all-zero block under the all-zero key encrypts to
\* 8CA64DE9C1B123A7, bit 1 the most significant bit.
C2_KnownAnswer ==
    (/\ pc = "enc_done"
     /\ master_key_bits = ZeroBits(64)
     /\ input_block = ZeroBits(64))
    => ciphertext =
           HexToBits(<< 8, 12, 10, 6, 4, 13, 14, 9, 12, 1, 11, 1, 2, 3, 10, 7 >>)

\* des_encrypt has returned for the all-zero block and key.
C2_Witness ==
    /\ pc = "enc_done"
    /\ master_key_bits = ZeroBits(64)
    /\ input_block = ZeroBits(64)
    /\ Len(ciphertext) = 64

\* C3: a key or a block that is not exactly 64 bits is rejected before any
\* table is applied to it: with such a key the key schedule is never
\* entered, with such a block the rounds are never entered, no result is
\* returned, and no read past the end of the input can kill the program.
C3_PreconditionRejected ==
    /\ Len(master_key_bits) # BlockBits => pc \in {"main", "gen_keys", "rejected"}
    /\ Len(input_block) # BlockBits =>
           pc \notin {"enc_loop", "dec_loop", "enc_done", "dec_done", "crashed"}

\* C4: for a 64-bit key, c_half and d_half are 28 bits after every
\* rotation, round_keys has 16 entries, every round key made so far is 48
\* bits, and all 16 are once generate_round_keys has returned.
C4_KeyScheduleLengths ==
    (Len(master_key_bits) = BlockBits /\ pc \notin {"main", "gen_keys", "crashed"})
    => /\ Len(c_half) = 28
       /\ Len(d_half) = 28
       /\ Len(round_keys) = 16
       /\ \A k \in 1..(IF pc = "gen_loop" THEN ki ELSE 16) :
              Len(round_keys[k]) = 48

\* generate_round_keys has returned 16 keys of 48 bits for a 64-bit key.
C4_Witness ==
    /\ pc = "enc_ip"
    /\ Len(master_key_bits) = BlockBits
    /\ Len(round_keys) = 16
    /\ \A k \in 1..16 : Len(round_keys[k]) = 48
    /\ Len(c_half) = 28 /\ Len(d_half) = 28

\* The input of s_box_substitution in the round about to run.
SBoxInput ==
    xor_bits(apply_permutation(right_half, E_TABLE, 48), round_keys[i + 1])

\* Every 6-bit chunk gives, in every S-box, a row in 0..3, a column in
\* 0..15 and a value in 0..15.
AllChunksInRange ==
    \A box \in 0..7 : \A chunk \in [1..6 -> {0, 1}] :
        /\ s_box_row(chunk) \in 0..3
        /\ s_box_col(chunk) \in 0..15
        /\ S_BOXES[box + 1][s_box_row(chunk) + 1][s_box_col(chunk) + 1] \in 0..15

\* C5: in s_box_substitution the row is in 0..3, the column in 0..15, the
\* value read in 0..15, and the output is 32 bits whose positions 4j..4j+3
\* hold the value of chunk j, most significant bit first.
C5_SBoxBounds ==
    /\ AllChunksInRange
    /\ (pc \in {"enc_loop", "dec_loop"} /\ i < Rounds) =>
          /\ Len(SBoxInput) = 48
          /\ Len(s_box_substitution(SBoxInput)) = 32
          /\ \A box \in 0..7 :
                /\ s_box_row(s_box_input(SBoxInput, box)) \in 0..3
                /\ s_box_col(s_box_input(SBoxInput, box)) \in 0..15
                /\ s_box_output_val(SBoxInput, box) \in 0..15
                /\ BitsValue(SubSeq(s_box_substitution(SBoxInput),
                                    4 * box + 1, 4 * box + 4))
                       = s_box_output_val(SBoxInput, box)

\* A round is about to substitute an input whose first chunk has row 3 and
\* whose last chunk reads a value that is not its own mirror image.
C5_Witness ==
    /\ pc \in {"enc_loop", "dec_loop"} /\ i < Rounds
    /\ s_box_row(s_box_input(SBoxInput, 0)) = 3
    /\ s_box_output_val(SBoxInput, 7) = 1

\* C6: des_decrypt returns what steps 3 to 7 of des_encrypt give on the
\* same block with the 16 round keys of the key in reversed order, and
\* des_encrypt returns what they give with the keys in forward order.
C6_DirectionSymmetry ==
    (pc \in {"dec_done", "enc_done"} /\ ValidInputs) =>
        LET keys == generate_round_keys(master_key_bits)
        IN  /\ Len(keys) = 16
            /\ pc = "dec_done" =>
                   decrypted =
                       des_encrypt_pipeline(
                           DecryptInput, Vec([k \in 1..16 |-> keys[17 - k]]))
            /\ pc = "enc_done" =>
                   ciphertext = des_encrypt_pipeline(input_block, keys)

\* des_decrypt has returned for a block the caller passed to it directly,
\* under a key whose reversed schedule differs from the forward one.
C6_Witness ==
    /\ pc = "dec_done" /\ ValidInputs /\ ~Chained
    /\ round_keys[1] # round_keys[16]
    /\ decrypted # input_block

\* C8: round key i is PC-2 of C0 and D0 each rotated left by the sum of
\* the shifts up to round i, the shifts being 1 in rounds 1, 2, 9 and 16
\* and 2 otherwise; c_half and d_half are those rotations of C0 and D0.
C8_KeyScheduleDerivation ==
    /\ \A k \in 1..16 : SHIFT_SCHEDULE[k] = IF k \in {1, 2, 9, 16} THEN 1 ELSE 2
    /\ (/\ Len(master_key_bits) = BlockBits
        /\ pc \in {"gen_loop", "enc_ip", "enc_loop", "enc_done", "dec_ip"})
       => /\ c_half = Rotl(C0, ShiftSum(ki))
          /\ d_half = Rotl(D0, ShiftSum(ki))
          /\ \A k \in 1..ki :
                round_keys[k] =
                    apply_permutation(
                        Rotl(C0, ShiftSum(k)) \o Rotl(D0, ShiftSum(k)),
                        PC2_TABLE, 48)

\* The key schedule is past round 9 for a key whose halves are not
\* constant, so the rotations move bits.
C8_Witness ==
    /\ pc = "gen_loop" /\ ki = 10
    /\ Len(master_key_bits) = BlockBits
    /\ c_half # C0 /\ d_half # D0
    /\ round_keys[9] # round_keys[10]

\* P(S(E(rr) XOR k)): the round function on the half rr and the key k.
Feistel(rr, k) ==
    apply_permutation(
        s_box_substitution(
            Vec([m \in 1..48 |-> IF rr[E_TABLE[m]] = k[m] THEN 0 ELSE 1])),
        P_TABLE, 32)

\* C9: a round makes the old Right the new Left and the old Left XOR
\* P(S(E(old Right) XOR round key)) the new Right, both of 32 bits; the
\* block handed to IP_INV is the final Right followed by the final Left.
C9_FeistelRound ==
    [][/\ (pc \in {"enc_loop", "dec_loop"} /\ pc' = pc) =>
            /\ i < Rounds /\ i' = i + 1
            /\ left_half' = right_half
            /\ right_half' =
                   LET f == Feistel(right_half, round_keys[i + 1])
                   IN  Vec([m \in 1..32 |-> IF left_half[m] = f[m] THEN 0 ELSE 1])
            /\ Len(left_half') = 32 /\ Len(right_half') = 32
       /\ (pc \in {"enc_loop", "dec_loop"} /\ pc' \in {"enc_done", "dec_done"}) =>
            /\ i = Rounds
            /\ combined_block' = right_half \o left_half
            /\ (IF pc' = "enc_done" THEN ciphertext' ELSE decrypted')
                   = apply_permutation(right_half \o left_half, IP_INV_TABLE, 64)
      ]_vars

\* Sixteen rounds have run and changed both halves of the block.
C9_Witness ==
    /\ pc = "enc_done"
    /\ i = Rounds
    /\ left_half # SubSeq(block, 1, 32)
    /\ right_half # SubSeq(block, 33, 64)
    /\ combined_block = right_half \o left_half

\* C10: the shifts sum to 28, so after the 16th round c_half and d_half
\* are C0 and D0 again and the 16th round key is PC-2 of C0 and D0.
C10_RotationCloses ==
    /\ ShiftSum(16) = 28
    /\ (pc = "gen_loop" /\ ki = Rounds /\ Len(master_key_bits) = BlockBits)
       => /\ c_half = C0
          /\ d_half = D0
          /\ round_keys[16] = apply_permutation(C0 \o D0, PC2_TABLE, 48)

\* The 16th round has run for a key whose halves are not constant: the
\* halves differed from C0 and D0 one round earlier.
C10_Witness ==
    /\ pc = "gen_loop" /\ ki = Rounds
    /\ Len(master_key_bits) = BlockBits
    /\ c_half = C0 /\ d_half = D0
    /\ circular_left_shift(C0, 27) # C0

---------------------------------------------------------------------------
(* rsa.cpp.                                                                *)

\* main: p, q, and the value the search for e starts from.
P_PRIME == 61

Q_PRIME == 53

E_START == 17

\* gcd: Euclid's loop.  Its operands are never negative here.
RECURSIVE gcd(_, _)
gcd(a, b) == IF b # 0 THEN gcd(b, a % b) ELSE a

\* main: while (gcd(e, phi) != 1) ++e, started at e0.
RECURSIVE choose_e(_, _)
choose_e(e0, ph) == IF gcd(e0, ph) # 1 THEN choose_e(e0 + 1, ph) ELSE e0

\* The mutation of mod_inverse_result that returns a negative t as it is.
mod_inverse_result_no_adjust(tt, rr, ph) ==
    IF rr > 1 THEN -1 ELSE tt

\* What mod_inverse returns once its loop has ended with t = tt and r = rr:
\* if (r > 1) return -1; if (t < 0) t += phi; return t.
mod_inverse_result(tt, rr, ph) ==
    IF rr > 1 THEN -1 ELSE IF tt < 0 THEN tt + ph ELSE tt

NoDes ==
    /\ pc = "off" /\ call = "none"
    /\ input_block = << >> /\ master_key_bits = << >> /\ block = << >>
    /\ c_half = << >> /\ d_half = << >> /\ round_keys = << >> /\ ki = 0
    /\ left_half = << >> /\ right_half = << >> /\ i = 0
    /\ combined_block = << >> /\ ciphertext = << >> /\ decrypted = << >>

\* Either main is about to choose e for phi = (p - 1) * (q - 1), or a caller
\* is about to call mod_inverse(e, phi) with 1 <= e < phi <= MaxPhi.
InitRSA ==
    /\ NoDes
    /\ \/ /\ rpc = "main"
          /\ phi = (P_PRIME - 1) * (Q_PRIME - 1)
          /\ e = E_START
       \/ /\ rpc = "call"
          /\ phi \in 2..MaxPhi
          /\ e \in 1..(phi - 1)
    /\ t = 0 /\ newt = 0 /\ r = 0 /\ newr = 0 /\ d = 0

\* main: the search for e, up to the call of mod_inverse.
main_choose_e ==
    /\ rpc = "main"
    /\ e' = choose_e(e, phi)
    /\ rpc' = "call"
    /\ UNCHANGED << phi, t, newt, r, newr, d, des_vars >>

\* mod_inverse is entered: t = 0, newt = 1, r = phi, newr = e.
mod_inverse_enter ==
    /\ rpc = "call"
    /\ t' = 0
    /\ newt' = 1
    /\ r' = phi
    /\ newr' = e
    /\ rpc' = "loop"
    /\ UNCHANGED << e, phi, d, des_vars >>

\* One iteration of the loop of mod_inverse.  r and newr are never
\* negative, so the truncating division of the source is \div.
mod_inverse_iterate ==
    /\ rpc = "loop"
    /\ newr # 0
    /\ LET quotient == r \div newr
       IN  /\ newt' = t - quotient * newt
           /\ t' = newt
           /\ newr' = r - quotient * newr
           /\ r' = newr
    /\ UNCHANGED << rpc, e, phi, d, des_vars >>

\* The loop has ended: mod_inverse returns and main stores the value in d.
mod_inverse_return ==
    /\ rpc = "loop"
    /\ newr = 0
    /\ d' = mod_inverse_result(t, r, phi)
    /\ rpc' = "returned"
    /\ UNCHANGED << e, phi, t, newt, r, newr, des_vars >>

\* main: if (d == -1) return 1; then assert((e * d) % phi == 1).
main_check ==
    /\ rpc = "returned"
    /\ rpc' = IF d = -1 THEN "no_inverse"
              ELSE IF (e * d) % phi = 1 THEN "asserted" ELSE "assert_failed"
    /\ UNCHANGED << e, phi, t, newt, r, newr, d, des_vars >>

NextRSA ==
    \/ main_choose_e
    \/ mod_inverse_enter
    \/ mod_inverse_iterate
    \/ mod_inverse_return
    \/ main_check

SpecRSA == InitRSA /\ [][NextRSA]_vars

---------------------------------------------------------------------------
(* Properties of rsa.cpp.                                                  *)

\* e and phi have no common divisor above 1.
Coprime(a, b) == \A g \in 2..a : ~(a % g = 0 /\ b % g = 0)

\* C7: for phi >= 2 and 1 <= e < phi, mod_inverse returns d with
\* 0 <= d < phi and (e * d) % phi = 1 when e and phi are coprime, and -1
\* when they are not; the assertion of main never fails.
C7_ModInverse ==
    /\ (rpc = "returned" /\ phi >= 2 /\ 1 <= e /\ e < phi) =>
          IF Coprime(e, phi)
          THEN 0 <= d /\ d < phi /\ (e * d) % phi = 1
          ELSE d = -1
    /\ rpc # "assert_failed"

\* mod_inverse has returned an inverse that it had to lift from a negative
\* t by adding phi.
C7_Witness ==
    /\ rpc = "returned"
    /\ t < 0
    /\ d = t + phi
    /\ (e * d) % phi = 1
============================================================================
